---- MODULE Spec2Model ----
(***************************************************************************)
(* Model of the hybrid-id-generator package (src/src/HybridIDGenerator.ts, *)
(* utils.ts, MachineIDProvider.ts): construction of a generator, the       *)
(* sequence/clock arbitration of nextId() and nextIds(), and the packing   *)
(* of the five fields into one integer.                                    *)
(*                                                                         *)
(* One generator instance is modelled.  The clock collaborator (Date.now() *)
(* or process.hrtime.bigint()) is the variable clock; the generator only   *)
(* ever sees it through getTimestamp().  The busy-wait of nextId() and     *)
(* nextIds() is the only place where a call reads the clock more than      *)
(* once, so a call is split there: one action per clock read of the loop.  *)
(* nextIds() is split per loop iteration.                                  *)
(*                                                                         *)
(* The read-only methods (isHybridID, validateID, info, isIdExpired,       *)
(* toBase62, fromBase62), the codecs of utils.ts and the static decoders   *)
(* of HybridID.ts are operators; each is also an action that applies it to *)
(* a candidate and records the result in query.  A bigint is an integer, a *)
(* string the sequence of its characters, a HybridID object the record of  *)
(* the bigint it wraps.                                                    *)
(***************************************************************************)
EXTENDS Integers, Sequences, FiniteSets, TLC

(***************************************************************************)
(* Bounds of the model.                                                    *)
(***************************************************************************)
\* largest raw clock value explored (the clock starts at 0)
MaxClock == 4
\* largest number of identifiers one behaviour emits
MaxIds == 3
\* largest batch size handed to nextIds (the smallest is -MaxBatch)
MaxBatch == 2

(***************************************************************************)
(* Program constants.                                                      *)
(***************************************************************************)
DefaultSequenceBits == 12
DefaultRandomBits == 10
DefaultEntropyBits == 5
DefaultMachineIdBits == 12
\* NetworkMachineIDProvider.hashMacToMachineId reduces the MAC modulo 1024
MacModulus == 1024

(***************************************************************************)
(* Integer helpers: JavaScript's <<, & and | on non-negative values.       *)
(***************************************************************************)
RECURSIVE Pow2Rec(_)
Pow2Rec(n) == IF n <= 0 THEN 1 ELSE 2 * Pow2Rec(n - 1)

\* the powers of two that fit a signed 32-bit integer, computed once
Pow2Table == [n \in 0 .. 30 |-> Pow2Rec(n)]

\* 2^n for n <= 30
Pow2(n) == IF n <= 0 THEN 1 ELSE Pow2Table[n]

\* x << n
Shl(x, n) == x * Pow2(n)

\* x >> n
Shr(x, n) == x \div Pow2(n)

\* a & b, bit by bit
RECURSIVE BitAndBits(_, _)
BitAndBits(a, b) ==
    IF a = 0 \/ b = 0 THEN 0
    ELSE (IF a % 2 = 1 /\ b % 2 = 1 THEN 1 ELSE 0) + 2 * BitAndBits(a \div 2, b \div 2)

\* a & b (the operands are evaluated once, then combined)
BitAnd(a, b) == CHOOSE r \in { BitAndBits(x, y) : x \in {a}, y \in {b} } : TRUE

\* a | b, bit by bit
RECURSIVE BitOrBits(_, _)
BitOrBits(a, b) ==
    IF a = 0 THEN b
    ELSE IF b = 0 THEN a
    ELSE (IF a % 2 = 1 \/ b % 2 = 1 THEN 1 ELSE 0) + 2 * BitOrBits(a \div 2, b \div 2)

\* a | b (the operands are evaluated once, then combined)
BitOr(a, b) == CHOOSE r \in { BitOrBits(x, y) : x \in {a}, y \in {b} } : TRUE

\* (1 << bits) - 1, for the widths of the model (bits <= 30, where the
\* 32-bit shift of JavaScript agrees with 2^bits)
MaxOfBits(bits) == Shl(1, bits) - 1

\* 1 << bits as JavaScript computes it, for any width: the shift count is
\* taken modulo 32 and the result is a signed 32-bit integer, so that
\* 1 << 31 is -2^31 and 1 << 32 is 1.  The limits of the fields are this
\* value minus 1.
ShiftLeftOne(bits) ==
    IF bits % 32 = 31 THEN (0 - 2147483647) - 1 ELSE Pow2(bits % 32)

\* options.x || d : a missing option and the value 0 both give the default
OrDefault(v, d) == IF v = 0 THEN d ELSE v

(***************************************************************************)
(* utils.ts                                                                *)
(***************************************************************************)
\* The low 16 bits of BigInt('0x' + sha256(String(t)).slice(0, 16)) for
\* t = 0 .. 15.  The generator only uses the digest through
\* "& maxTimestamp", so for timestampBits <= 16 the low 16 bits decide it.
Sha256Low16 ==
    << 28472, 64737, 5870, 56203, 8134, 37931, 36279, 35470,
       8567, 60672, 1192, 18386, 32532, 35910, 4969, 12918 >>

obfuscateTimestamp(timestamp) == Sha256Low16[timestamp + 1]

\* the values generateRandomBits(randomBits, useCrypto) can return
generateRandomBits(randomBits, useCrypto) ==
    IF useCrypto
    THEN { BitAnd(n, MaxOfBits(randomBits)) : n \in 0 .. MaxOfBits(randomBits) }
    ELSE 0 .. ((MaxOfBits(randomBits) + 1) - 1)

\* validateMachineId: the set of outcomes [ok, machineId, error]
\* an Error: its message, and the number the message quotes (0 if none)
Err(msg, num) == [msg |-> msg, num |-> num]
NoError == Err("", 0)

Thrown(e) == [ok |-> FALSE, machineId |-> -1, error |-> e]
Returned(m) == [ok |-> TRUE, machineId |-> m, error |-> NoError]

\* `Machine ID must be between 0 and ${maxMachineId}.`
RangeError(maxMachineId) == Err("Machine ID must be between 0 and", maxMachineId)

\* (a range check that is off by one at the upper end)
validateMachineIdOffByOne(machineIdStrategy, machineId, maxMachineId) ==
    IF machineId.kind = "number"
    THEN IF machineId.val < 0 \/ machineId.val >= maxMachineId
         THEN { Thrown(RangeError(maxMachineId)) }
         ELSE { Returned(machineId.val) }
    ELSE IF machineIdStrategy = "random"
         THEN { Thrown(Err("When machineIdStrategy is 'random', machineId must be provided as a number.", 0)) }
         ELSE { Returned(m) : m \in 0 .. maxMachineId }

validateMachineId(machineIdStrategy, machineId, maxMachineId) ==
    IF machineIdStrategy = "random"
    THEN IF machineId.kind # "number"
         THEN { Thrown(Err("When machineIdStrategy is 'random', machineId must be provided as a number.", 0)) }
         ELSE IF machineId.val < 0 \/ machineId.val > maxMachineId
              THEN { Thrown(RangeError(maxMachineId)) }
              ELSE { Returned(machineId.val) }
    ELSE IF machineId.kind = "number"
         THEN IF machineId.val < 0 \/ machineId.val > maxMachineId
              THEN { Thrown(RangeError(maxMachineId)) }
              ELSE { Returned(machineId.val) }
         ELSE { Returned(m) : m \in 0 .. maxMachineId }

(***************************************************************************)
(* MachineIDProvider.ts                                                    *)
(***************************************************************************)
\* EnvMachineIDProvider.getMachineId.  env is the content of the named
\* environment variable: kind "undefined" (not set), "empty" (the empty
\* string), "nan" (parseInt gives NaN) or "int" (parseInt gives val).
EnvGetMachineId(env) ==
    IF env.kind \in {"undefined", "empty"}
    THEN Thrown(Err("Environment variable is not defined", 0))
    ELSE IF env.kind = "nan" \/ env.val < 0
         THEN Thrown(Err("Invalid MACHINE_ID from environment variable", 0))
         ELSE Returned(env.val)

\* NetworkMachineIDProvider.getValidMac: the first hardware address of one
\* interface that is not 00:00:00:00:00:00 (0 here), or 0 when there is none
RECURSIVE getValidMac(_)
getValidMac(iface) ==
    IF iface = << >> THEN 0
    ELSE IF Head(iface) # 0 THEN Head(iface)
    ELSE getValidMac(Tail(iface))

\* the loop of NetworkMachineIDProvider.getMachineId over all interfaces
RECURSIVE FirstValidMac(_)
FirstValidMac(interfaces) ==
    IF interfaces = << >> THEN 0
    ELSE IF getValidMac(Head(interfaces)) # 0 THEN getValidMac(Head(interfaces))
    ELSE FirstValidMac(Tail(interfaces))

hashMacToMachineId(mac) == mac % MacModulus

NetworkGetMachineId(interfaces) ==
    IF FirstValidMac(interfaces) = 0
    THEN Thrown(Err("Unable to determine machine ID based on network interface", 0))
    ELSE Returned(hashMacToMachineId(FirstValidMac(interfaces)))

(***************************************************************************)
(* HybridIDGenerator: constructor                                          *)
(***************************************************************************)
\* the instance fields the constructor derives from the options a
Fields(a) ==
    [ sequenceBits        |-> OrDefault(a.sequenceBits, DefaultSequenceBits),
      randomBits          |-> OrDefault(a.randomBits, DefaultRandomBits),
      entropyBits         |-> OrDefault(a.entropyBits, DefaultEntropyBits),
      useCrypto           |-> a.useCrypto,
      maskTimestamp       |-> a.maskTimestamp,
      enableEventEmission |-> a.enableEventEmission,
      machineIdBits       |-> OrDefault(a.machineIdBits, DefaultMachineIdBits),
      maxMachineId        |-> MaxOfBits(OrDefault(a.machineIdBits, DefaultMachineIdBits)),
      machineIdStrategy   |-> a.machineIdStrategy,
      timestampBits       |-> a.timestampBits,
      useWallClock        |-> a.useWallClock,
      maxTimestamp        |-> Shl(1, a.timestampBits) - 1,
      maxSequence         |-> MaxOfBits(OrDefault(a.sequenceBits, DefaultSequenceBits)) ]

\* (a constructor that keeps the provider's value as it is)
FoldMachineIdSkipped(resolved, maxMachineId) == resolved

\* ((resolved % (max + 1)) + (max + 1)) % (max + 1), applied when the
\* provider's value is outside 0 .. max
FoldMachineId(resolved, maxMachineId) ==
    IF resolved < 0 \/ resolved > maxMachineId
    THEN ((resolved % (maxMachineId + 1)) + (maxMachineId + 1)) % (maxMachineId + 1)
    ELSE resolved

\* MachineIDProviderFactory.createMachineIDProvider(strategy, value).getMachineId()
ProviderGetMachineId(a) ==
    IF a.machineIdStrategy = "env" THEN EnvGetMachineId(a.env)
    ELSE NetworkGetMachineId(a.interfaces)

\* the outcomes of resolving the machine ID in the constructor
ResolveMachineId(a) ==
    IF a.machineIdStrategy \in {"env", "network"}
    THEN IF ProviderGetMachineId(a).ok
         THEN { Returned(FoldMachineId(ProviderGetMachineId(a).machineId,
                                       Fields(a).maxMachineId)) }
         ELSE { ProviderGetMachineId(a) }
    ELSE validateMachineId(a.machineIdStrategy, a.machineId, Fields(a).maxMachineId)

(***************************************************************************)
(* Text and the codecs (constants.ts, utils.ts).  A string is the sequence *)
(* of its characters.                                                      *)
(***************************************************************************)
Base62Chars ==
    <<"0", "1", "2", "3", "4", "5", "6", "7", "8", "9", "a", "b", "c", "d", "e", "f",
       "g", "h", "i", "j", "k", "l", "m", "n", "o", "p", "q", "r", "s", "t", "u", "v",
       "w", "x", "y", "z", "A", "B", "C", "D", "E", "F", "G", "H", "I", "J", "K", "L",
       "M", "N", "O", "P", "Q", "R", "S", "T", "U", "V", "W", "X", "Y", "Z" >>

Base32Chars ==
    <<"A", "B", "C", "D", "E", "F", "G", "H", "I", "J", "K", "L", "M", "N", "O", "P",
       "Q", "R", "S", "T", "U", "V", "W", "X", "Y", "Z", "2", "3", "4", "5", "6", "7" >>

Base64Chars ==
    <<"A", "B", "C", "D", "E", "F", "G", "H", "I", "J", "K", "L", "M", "N", "O", "P",
       "Q", "R", "S", "T", "U", "V", "W", "X", "Y", "Z", "a", "b", "c", "d", "e", "f",
       "g", "h", "i", "j", "k", "l", "m", "n", "o", "p", "q", "r", "s", "t", "u", "v",
       "w", "x", "y", "z", "0", "1", "2", "3", "4", "5", "6", "7", "8", "9", "+", "/" >>

\* (a position counted from 1)
indexOfOneBased(chars, ch) ==
    LET found == { k \in 1 .. Len(chars) : chars[k] = ch }
    IN IF found = {} THEN -1
       ELSE CHOOSE k \in found : \A j \in found : k <= j

\* chars.indexOf(ch): the 0-based position of the first occurrence, -1 if
\* there is none
indexOf(chars, ch) ==
    LET found == { k \in 1 .. Len(chars) : chars[k] = ch }
    IN IF found = {} THEN -1
       ELSE (CHOOSE k \in found : \A j \in found : k <= j) - 1

\* toBigInt(input) for the inputs explored: every input is a bigint already
toBigInt(input) == input

\* the loop of encodeBase62: digits are prepended while num > 0
RECURSIVE EncodeLoop62(_)
EncodeLoop62(num) ==
    IF num > 0
    THEN Append(EncodeLoop62(num \div 62), Base62Chars[(num % 62) + 1])
    ELSE << >>

\* encoded || '0'
OrZero(encoded) == IF encoded = << >> THEN <<"0">> ELSE encoded

encodeBase62(input) == OrZero(EncodeLoop62(toBigInt(input)))

\* the loop of decodeBase62 over the first k characters
RECURSIVE DecodeLoop62(_, _)
DecodeLoop62(encoded, k) ==
    IF k = 0 THEN 0
    ELSE DecodeLoop62(encoded, k - 1) * 62 + indexOf(Base62Chars, encoded[k])

decodeBase62(encoded) == DecodeLoop62(encoded, Len(encoded))

RECURSIVE EncodeLoop32(_)
EncodeLoop32(num) ==
    IF num > 0
    THEN Append(EncodeLoop32(num \div 32), Base32Chars[(num % 32) + 1])
    ELSE << >>

encodeBase32(input) == OrZero(EncodeLoop32(toBigInt(input)))

RECURSIVE DecodeLoop32(_, _)
DecodeLoop32(encoded, k) ==
    IF k = 0 THEN 0
    ELSE DecodeLoop32(encoded, k - 1) * 32 + indexOf(Base32Chars, encoded[k])

decodeBase32(encoded) == DecodeLoop32(encoded, Len(encoded))

RECURSIVE DecodeLoop64(_, _)
DecodeLoop64(encoded, k) ==
    IF k = 0 THEN 0
    ELSE DecodeLoop64(encoded, k - 1) * 64 + indexOf(Base64Chars, encoded[k])

decodeBase64(encoded) == DecodeLoop64(encoded, Len(encoded))

RECURSIVE EncodeLoop64(_)
EncodeLoop64(num) ==
    IF num > 0
    THEN Append(EncodeLoop64(num \div 64), Base64Chars[(num % 64) + 1])
    ELSE << >>

encodeBase64(input) == OrZero(EncodeLoop64(toBigInt(input)))

\* what a call gives back: a value, or the message of the Error it threw
Value(v) == [threw |-> FALSE, message |-> "", value |-> v]
Throw(msg) == [threw |-> TRUE, message |-> msg, value |-> 0]

(***************************************************************************)
(* HybridID (HybridID.ts).  An object is the record of its private field.  *)
(***************************************************************************)
\* new HybridID(id)
NewHybridID(id) == [id |-> id]

\* the set of characters of an alphabet
CharSet(chars) == { chars[k] : k \in 1 .. Len(chars) }

\* HybridID.isValidBase62: ^[Base62Chars]+$
isValidBase62(encoded) ==
    Len(encoded) > 0 /\ \A k \in 1 .. Len(encoded) : encoded[k] \in CharSet(Base62Chars)

\* HybridID.isValidBase32: ^[Base32Chars]+$
isValidBase32(encoded) ==
    Len(encoded) > 0 /\ \A k \in 1 .. Len(encoded) : encoded[k] \in CharSet(Base32Chars)

\* the text without its trailing '=' characters
RECURSIVE StripPadding(_)
StripPadding(encoded) ==
    IF Len(encoded) > 0 /\ encoded[Len(encoded)] = "="
    THEN StripPadding(SubSeq(encoded, 1, Len(encoded) - 1))
    ELSE encoded

\* HybridID.isValidBase64: ^[Base64Chars]*={0,2}$, then the text without
\* its padding must be whole groups of four characters (the padded
\* alternative of the second expression cannot match once '=' is removed)
isValidBase64(encoded) ==
    /\ Len(encoded) - Len(StripPadding(encoded)) <= 2
    /\ \A k \in 1 .. Len(StripPadding(encoded)) :
           StripPadding(encoded)[k] \in CharSet(Base64Chars)
    /\ Len(StripPadding(encoded)) % 4 = 0

\* HybridID.toBase62 / toBase32 / toBase64 and toBigInt of an object
HybridIDToBase62(h) == encodeBase62(h.id)
HybridIDToBase32(h) == encodeBase32(h.id)
HybridIDToBase64(h) == encodeBase64(h.id)
HybridIDToBigInt(h) == toBigInt(h.id)

\* HybridID.fromBase62 / fromBase32 / fromBase64
HybridIDFromBase62(encoded) ==
    IF ~isValidBase62(encoded) THEN Throw("Invalid Base62 encoded string")
    ELSE Value(NewHybridID(decodeBase62(encoded)))

HybridIDFromBase32(encoded) ==
    IF ~isValidBase32(encoded) THEN Throw("Invalid Base32 encoded string")
    ELSE Value(NewHybridID(decodeBase32(encoded)))

HybridIDFromBase64(encoded) ==
    IF ~isValidBase64(encoded) THEN Throw("Invalid Base64 encoded string")
    ELSE Value(NewHybridID(decodeBase64(encoded)))

(***************************************************************************)
(* Constructor arguments explored.                                         *)
(***************************************************************************)
Undefined == [kind |-> "undefined", val |-> 0]
Num(n) == [kind |-> "number", val |-> n]
Str == [kind |-> "string", val |-> 0]
NoEnv == [kind |-> "undefined", val |-> 0]
NoInterfaces == << >>

BaseArgs ==
    [ sequenceBits |-> 1, randomBits |-> 1, entropyBits |-> 1, useCrypto |-> FALSE,
      maskTimestamp |-> FALSE, enableEventEmission |-> FALSE, machineIdBits |-> 2,
      machineIdStrategy |-> "none", machineId |-> Num(1), timestampBits |-> 2,
      useWallClock |-> TRUE, env |-> NoEnv, interfaces |-> NoInterfaces ]

\* arguments that vary what the generation calls depend on
\* (events and the crypto random source are switched on together with the
\* wider timestamp: neither changes what the other options do; the
\* monotonic clock is chosen together with the wider sequence: the clock
\* mode only changes what isIdExpired compares)
GenArgs ==
    { a \in { [BaseArgs EXCEPT !.sequenceBits = sb, !.timestampBits = tb,
                       !.maskTimestamp = mk, !.enableEventEmission = (tb = 3),
                       !.useCrypto = (tb = 3), !.machineId = Num(2),
                       !.useWallClock = (sb = 1)] :
        sb \in {1, 2}, tb \in {2, 3}, mk \in BOOLEAN } :
      a.sequenceBits = 1 \/ ~a.maskTimestamp }

\* arguments that vary how the machine ID is resolved
ExplicitArgs ==
    { [BaseArgs EXCEPT !.machineIdBits = mb, !.machineId = Num(m)] :
        mb \in {0, 1, 2}, m \in {-1, 0, 1, 2, 3, 4, 4095, 4096} }

NoneArgs ==
    { [BaseArgs EXCEPT !.machineIdBits = mb, !.machineId = mid] :
        mb \in {1, 2}, mid \in {Undefined} }
    \cup { [BaseArgs EXCEPT !.machineIdBits = 1, !.machineId = Str] }

EnvArgs ==
    { [BaseArgs EXCEPT !.machineIdBits = mb, !.machineIdStrategy = "env",
                       !.machineId = (IF mb = 1 THEN Undefined ELSE Str), !.env = e] :
        mb \in {1, 2},
        e \in {NoEnv, [kind |-> "empty", val |-> 0], [kind |-> "nan", val |-> 0]}
              \cup { [kind |-> "int", val |-> v] : v \in {-3, 0, 3, 4, 6} } }

NetworkArgs ==
    { [BaseArgs EXCEPT !.machineIdBits = mb, !.machineIdStrategy = "network",
                       !.interfaces = ifs] :
        mb \in {0, 2},
        ifs \in { << >>, << <<0>> >>, << <<0, 1029>> >>, << <<0>>, << >>, <<2050, 7>> >>,
                  << <<1023>> >>, << <<1024>> >> } }

RandomArgs ==
    { [BaseArgs EXCEPT !.machineIdBits = mb, !.machineIdStrategy = "random",
                       !.machineId = mid] :
        mb \in {1, 2}, mid \in {Undefined, Str, Num(-1), Num(0), Num(3), Num(4)} }

CtorArgs == ExplicitArgs \cup NoneArgs \cup EnvArgs \cup NetworkArgs \cup RandomArgs

(***************************************************************************)
(* State.                                                                  *)
(***************************************************************************)
VARIABLES
    args,           \* the options the constructor was called with
    cfg,            \* the instance's configuration fields
    machineId,      \* this.machineId
    sequence,       \* this.sequence
    lastTimestamp,  \* this.lastTimestamp
    error,          \* the error the constructor or the last completed call threw,
                    \* NoError if it returned
    pc,             \* "failed": the constructor threw; "idle": no call in progress;
                    \* "wait": nextId in its busy-wait; "batch": nextIds between two
                    \* iterations; "batchwait": nextIds in its busy-wait;
                    \* "listenerwait": a nextId called by a listener in its busy-wait
    clock,          \* the clock collaborator
    timestamp,      \* local variable timestamp of the call in progress
    read,           \* the value the last getTimestamp() of the call returned
    rawRead,        \* what the clock showed at that read
    lts,            \* local variable lastTimestamp of nextIds
    i,              \* loop index of nextIds
    batchSize,      \* argument of nextIds
    ids,            \* the array nextIds fills and returns
    ret,            \* how the last completed call ended: "none" (no call yet), "id"
                    \* (nextId returned lastId), "ids" (nextIds returned ids) or
                    \* "error" (it threw error)
    eventCount,     \* number of 'idGenerated' events emitted so far
    lastEvent,      \* the identifier carried by the last event, -1 if none
    lastId,         \* the last identifier produced, -1 if none
    lastRead,       \* the clock reading lastId was built from
    lastClock,      \* what the clock showed at that reading
    lastDraw,       \* the random and entropy values drawn for lastId
    emitted,        \* the (timestamp field, sequence field) pairs of the ids produced,
                    \* kept while recording
    recording,      \* whether this behaviour keeps the history in emitted
    count,          \* number of identifiers produced so far
    idStreak,       \* number of nextId() calls completed in a row, counted up to 2
    issued,         \* the identifiers this instance produced, kept while a second
                    \* instance is followed
    query,          \* the last read-only call made: its operation, its argument
                    \* and what it gave back; NoQuery if none or if the caller
                    \* is done with it, as it is when it makes its next call
    peer,           \* a second instance, of the same widths, while the calls go to
                    \* this one: its machineId, sequence, lastTimestamp, the
                    \* identifiers it produced and the last of them; NoPeer if
                    \* only one is followed
    racer           \* a second nextId() call on this instance that runs beside the
                    \* calls above, were calls to interleave: where it is, what it
                    \* has read, and whether a call has ever written between the
                    \* read and the write of another; NoRacer if there is none

instVars == <<args, cfg, machineId>>
genVars == <<sequence, lastTimestamp>>
callVars == <<timestamp, read, rawRead, lts, i, batchSize, ids>>
outVars == <<eventCount, lastEvent, lastId, lastRead, lastClock, lastDraw, emitted, count,
             issued>>
histVars == <<idStreak>>
vars == <<instVars, recording, genVars, error, pc, clock, callVars, ret, outVars, histVars,
         query, peer, racer>>

(***************************************************************************)
(* Bit layout.                                                             *)
(***************************************************************************)
\* (a layout whose random field is not shifted above the sequence)
PackRandomUnshifted(ts, mid, entropyValue, randomBits, seq) ==
    BitOr(BitOr(BitOr(BitOr(
        Shl(ts, cfg.sequenceBits + cfg.randomBits + cfg.entropyBits + cfg.machineIdBits),
        Shl(mid, cfg.sequenceBits + cfg.randomBits + cfg.entropyBits)),
        Shl(entropyValue, cfg.sequenceBits + cfg.randomBits)),
        randomBits),
        seq)

\* (a layout with the timestamp below the machine ID)
PackTimestampBelowMachineId(ts, mid, entropyValue, randomBits, seq) ==
    BitOr(BitOr(BitOr(BitOr(
        Shl(mid, cfg.sequenceBits + cfg.randomBits + cfg.entropyBits + cfg.timestampBits),
        Shl(ts, cfg.sequenceBits + cfg.randomBits + cfg.entropyBits)),
        Shl(entropyValue, cfg.sequenceBits + cfg.randomBits)),
        Shl(randomBits, cfg.sequenceBits)),
        seq)

\* (a layout that leaves the machine ID out)
PackWithoutMachineId(ts, mid, entropyValue, randomBits, seq) ==
    BitOr(BitOr(BitOr(
        Shl(ts, cfg.sequenceBits + cfg.randomBits + cfg.entropyBits + cfg.machineIdBits),
        Shl(entropyValue, cfg.sequenceBits + cfg.randomBits)),
        Shl(randomBits, cfg.sequenceBits)),
        seq)

\* the identifier nextId/nextIds build from the five fields
Pack(ts, mid, entropyValue, randomBits, seq) ==
    BitOr(BitOr(BitOr(BitOr(
        Shl(ts, cfg.sequenceBits + cfg.randomBits + cfg.entropyBits + cfg.machineIdBits),
        Shl(mid, cfg.sequenceBits + cfg.randomBits + cfg.entropyBits)),
        Shl(entropyValue, cfg.sequenceBits + cfg.randomBits)),
        Shl(randomBits, cfg.sequenceBits)),
        seq)

\* the fields as info/isHybridID/isIdExpired read them back
TimestampField(id) ==
    Shr(id, cfg.sequenceBits + cfg.randomBits + cfg.entropyBits + cfg.machineIdBits)

MachineIdField(id) ==
    BitAnd(Shr(id, cfg.sequenceBits + cfg.randomBits + cfg.entropyBits),
           Shl(1, cfg.machineIdBits) - 1)

RandomField(id) == BitAnd(Shr(id, cfg.sequenceBits), Shl(1, cfg.randomBits) - 1)

SequenceField(id) == BitAnd(id, cfg.maxSequence)

(***************************************************************************)
(* The clock collaborator.                                                 *)
(***************************************************************************)
\* what getTimestamp() returns when the clock shows c
TickOf(c) == BitAnd(c, cfg.maxTimestamp)

\* getTimestamp(): both clock sources are the collaborator clock
getTimestamp == TickOf(clock)

ClockAdvance ==
    /\ clock < MaxClock
    /\ clock' = clock + 1
    /\ UNCHANGED <<instVars, recording, genVars, error, pc, callVars, ret, outVars, histVars,
                 query, peer, racer>>

ClockBack ==
    /\ \E c \in 0 .. (clock - 1) : clock' = c
    /\ UNCHANGED <<instVars, recording, genVars, error, pc, callVars, ret, outVars, histVars,
                 query, peer, racer>>

(***************************************************************************)
(* nextId / nextIds                                                        *)
(***************************************************************************)
\* (a hashed timestamp that keeps all the bits of the digest)
StartTimestampWide(t0) ==
    IF cfg.maskTimestamp THEN obfuscateTimestamp(t0) ELSE t0

\* the timestamp a call starts from: the clock reading, hashed when
\* maskTimestamp is set
StartTimestamp(t0) ==
    IF cfg.maskTimestamp
    THEN BitAnd(obfuscateTimestamp(t0), cfg.maxTimestamp)
    ELSE t0

\* (a sequence that sticks at its maximum instead of wrapping)
NextSequenceClamped(seq) ==
    IF seq + 1 > cfg.maxSequence THEN cfg.maxSequence ELSE seq + 1

\* this.sequence = (this.sequence + 1) & this.maxSequence
NextSequence(seq) == BitAnd(seq + 1, cfg.maxSequence)

\* (a busy-wait that already stops on the tick it started in)
KeepWaitingStrict(t, last) == t < last

\* the test of the busy-wait loop: while (timestamp <= lastTimestamp)
KeepWaiting(t, last) == t <= last

\* no identifier yet, so no values drawn for it
NoDraw == [randomBits |-> -1, entropyValue |-> -1]

\* no second call beside the first, and none so far
NoRacer ==
    [pc |-> "none", timestamp |-> -1, read |-> -1, clock |-> -1, lastTimestamp |-> -1,
     sequence |-> 0, count |-> 0, raced |-> FALSE]

\* only one instance is followed
NoPeer ==
    [on |-> FALSE, machineId |-> 0, sequence |-> 0, lastTimestamp |-> -1, issued |-> {},
     lastId |-> -1]

\* (a generator that never emits the event)
ProducedSilently(id, rd, rc, draw) ==
    /\ lastId' = id
    /\ lastRead' = rd
    /\ lastClock' = rc
    /\ lastDraw' = draw
    /\ emitted' = IF recording
                  THEN emitted \cup {<<TimestampField(id), SequenceField(id)>>}
                  ELSE emitted
    /\ count' = count + 1
    /\ issued' = IF peer.on THEN issued \cup {id} ELSE issued
    /\ UNCHANGED <<eventCount, lastEvent>>

\* an identifier has been built: the optional event and the history
Produced(id, rd, rc, draw) ==
    /\ lastId' = id
    /\ lastRead' = rd
    /\ lastClock' = rc
    /\ lastDraw' = draw
    /\ emitted' = IF recording
                  THEN emitted \cup {<<TimestampField(id), SequenceField(id)>>}
                  ELSE emitted
    /\ count' = count + 1
    /\ issued' = IF peer.on THEN issued \cup {id} ELSE issued
    /\ IF cfg.enableEventEmission
       THEN eventCount' = eventCount + 1 /\ lastEvent' = id
       ELSE UNCHANGED <<eventCount, lastEvent>>

\* a call returns: its local variables are gone, ids holds what nextIds
\* returned (empty after nextId)
Released ==
    /\ timestamp' = -1
    /\ read' = -1
    /\ rawRead' = -1
    /\ lts' = -1
    /\ i' = 0

\* lines 276-289 of nextId: store the timestamp, draw the random fields,
\* pack, emit, return
NextIdFinish(t, seq, rd) ==
    /\ sequence' = seq
    /\ lastTimestamp' = t
    /\ \E randomBits \in generateRandomBits(cfg.randomBits, cfg.useCrypto),
          entropyValue \in generateRandomBits(cfg.entropyBits, cfg.useCrypto) :
          Produced(Pack(t, machineId, entropyValue, randomBits, seq), rd, clock,
                   [randomBits |-> randomBits, entropyValue |-> entropyValue])
    /\ pc' = "idle"
    /\ ret' = "id"
    /\ idStreak' = IF idStreak < 2 THEN idStreak + 1 ELSE 2
    /\ error' = NoError
    /\ batchSize' = 0
    /\ ids' = << >>
    /\ Released

\* nextId() up to its return or up to the first read of the busy-wait
NextId ==
    /\ pc = "idle"
    /\ query.op = "none"
    /\ count < MaxIds
    /\ LET t0 == getTimestamp
           t == StartTimestamp(t0)
       IN IF t = lastTimestamp
          THEN IF NextSequence(sequence) = 0
               THEN /\ sequence' = 0
                    /\ timestamp' = t
                    /\ read' = t0
                    /\ rawRead' = clock
                    /\ pc' = "wait"
                    /\ batchSize' = 0
                    /\ ids' = << >>
                    /\ UNCHANGED <<lastTimestamp, error, lts, i, ret, outVars, histVars>>
               ELSE NextIdFinish(t, NextSequence(sequence), t0)
          ELSE NextIdFinish(t, 0, t0)
    /\ UNCHANGED <<instVars, recording, clock, query, peer, racer>>

\* one pass of the busy-wait of nextId: timestamp = this.getTimestamp()
NextIdWait ==
    /\ pc = "wait"
    /\ LET t == getTimestamp
       IN IF KeepWaiting(t, lastTimestamp)
          THEN /\ timestamp' = t
               /\ read' = t
               /\ rawRead' = clock
               /\ UNCHANGED <<genVars, error, pc, lts, i, batchSize, ids, ret, outVars,
                              histVars>>
          ELSE NextIdFinish(t, sequence, t)
    /\ UNCHANGED <<instVars, recording, clock, query, peer, racer>>

\* (a size check that lets 0 through)
InvalidBatchSizeNegative(n) == n < 0

\* if (batchSize <= 0) throw
InvalidBatchSize(n) == n <= 0

\* nextIds(n) up to its loop: the size check, the one clock read, the cache,
\* the first test of the loop (i < batchSize with i = 0)
NextIdsCall(n) ==
    /\ pc = "idle"
    /\ query.op = "none"
    /\ idStreak' = 0
    /\ IF InvalidBatchSize(n)
       THEN /\ error' = Err("Batch size must be greater than 0", 0)
            /\ ret' = "error"
            /\ UNCHANGED <<genVars, pc, callVars, outVars>>
       ELSE /\ count + n <= MaxIds
            /\ ids' = << >>
            /\ batchSize' = n
            /\ IF 0 < n
               THEN /\ i' = 0
                    /\ read' = getTimestamp
                    /\ rawRead' = clock
                    /\ timestamp' = StartTimestamp(getTimestamp)
                    /\ lts' = lastTimestamp
                    /\ pc' = "batch"
                    /\ UNCHANGED <<error, ret>>
               ELSE /\ Released
                    /\ pc' = "idle"
                    /\ ret' = "ids"
                    /\ error' = NoError
            /\ UNCHANGED <<genVars, outVars>>
    /\ UNCHANGED <<instVars, recording, clock, query, peer, racer>>

\* the batch sizes tried
BatchSizes == (0 - MaxBatch) .. MaxBatch

NextIds == \E n \in BatchSizes : NextIdsCall(n)

\* lines 336-355 of nextIds: the rest of one iteration, and the return
\* after the last one
NextIdsStore(t, seq, rd, rc) ==
    /\ sequence' = seq
    /\ lastTimestamp' = t
    /\ \E randomBits \in generateRandomBits(cfg.randomBits, cfg.useCrypto),
          entropyValue \in generateRandomBits(cfg.entropyBits, cfg.useCrypto) :
          /\ Produced(Pack(t, machineId, entropyValue, randomBits, seq), rd, rc,
                      [randomBits |-> randomBits, entropyValue |-> entropyValue])
          /\ ids' = Append(ids, Pack(t, machineId, entropyValue, randomBits, seq))
    /\ IF i + 1 < batchSize
       THEN /\ lts' = t
            /\ timestamp' = t
            /\ read' = rd
            /\ rawRead' = rc
            /\ i' = i + 1
            /\ pc' = "batch"
            /\ UNCHANGED <<error, ret>>
       ELSE /\ Released
            /\ pc' = "idle"
            /\ ret' = "ids"
            /\ error' = NoError
    /\ UNCHANGED <<batchSize, histVars>>

\* one iteration of the loop of nextIds, up to its end or up to the first
\* read of the busy-wait
NextIdsIter ==
    /\ pc = "batch"
    /\ IF timestamp = lts
       THEN IF NextSequence(sequence) = 0
            THEN /\ sequence' = 0
                 /\ pc' = "batchwait"
                 /\ UNCHANGED <<lastTimestamp, error, callVars, ret, outVars, histVars>>
            ELSE NextIdsStore(timestamp, NextSequence(sequence), read, rawRead)
       ELSE NextIdsStore(timestamp, 0, read, rawRead)
    /\ UNCHANGED <<instVars, recording, clock, query, peer, racer>>

\* one pass of the busy-wait of nextIds
NextIdsWait ==
    /\ pc = "batchwait"
    /\ LET t == getTimestamp
       IN IF KeepWaiting(t, lts)
          THEN /\ timestamp' = t
               /\ read' = t
               /\ rawRead' = clock
               /\ UNCHANGED <<genVars, error, pc, lts, i, batchSize, ids, ret, outVars,
                              histVars>>
          ELSE NextIdsStore(t, sequence, t, clock)
    /\ UNCHANGED <<instVars, recording, clock, query, peer, racer>>

(***************************************************************************)
(* A listener of 'idGenerated' that calls nextId().  emit runs the         *)
(* listener before it returns, so the call happens inside nextIds: after   *)
(* an element was stored and its event emitted, before the next iteration  *)
(* or before the return.  The call has its own local variables and leaves  *)
(* those of nextIds alone; its own event may make the listener call again. *)
(***************************************************************************)
\* largest number of calls the listener makes during one nextIds
MaxListenerCalls == 2

\* nextIds has emitted an event and has not returned to its caller, or has
\* only just done so
InsideBatchEvent ==
    /\ cfg.enableEventEmission
    /\ Len(ids) >= 1
    /\ pc = "batch" \/ (pc = "idle" /\ ret = "ids")

\* lines 276-289 of nextId, called by the listener
ListenerNextIdFinish(t, seq, rd) ==
    /\ sequence' = seq
    /\ lastTimestamp' = t
    /\ \E randomBits \in generateRandomBits(cfg.randomBits, cfg.useCrypto),
          entropyValue \in generateRandomBits(cfg.entropyBits, cfg.useCrypto) :
          Produced(Pack(t, machineId, entropyValue, randomBits, seq), rd, clock,
                   [randomBits |-> randomBits, entropyValue |-> entropyValue])
    /\ pc' = IF pc # "listenerwait" THEN pc ELSE IF i >= 1 THEN "batch" ELSE "idle"
    /\ idStreak' = idStreak + 1

\* nextId() called by the listener, up to its return or up to its busy-wait
ListenerNextId ==
    /\ InsideBatchEvent
    /\ idStreak < MaxListenerCalls
    /\ LET t0 == getTimestamp
           t == StartTimestamp(t0)
       IN IF t = lastTimestamp
          THEN IF NextSequence(sequence) = 0
               THEN /\ sequence' = 0
                    /\ pc' = "listenerwait"
                    /\ UNCHANGED <<lastTimestamp, outVars, histVars>>
               ELSE ListenerNextIdFinish(t, NextSequence(sequence), t0)
          ELSE ListenerNextIdFinish(t, 0, t0)
    /\ UNCHANGED <<instVars, recording, error, clock, callVars, ret, query, peer, racer>>

\* the pass of the busy-wait of that nextId() that leaves the loop (the
\* passes before it change nothing but the call's own timestamp)
ListenerNextIdWait ==
    /\ pc = "listenerwait"
    /\ ~KeepWaiting(getTimestamp, lastTimestamp)
    /\ ListenerNextIdFinish(getTimestamp, sequence, getTimestamp)
    /\ UNCHANGED <<instVars, recording, error, clock, callVars, ret, query, peer, racer>>

(***************************************************************************)
(* Two nextId() calls on one instance that interleave.  The second call    *)
(* does its reads (the clock, this.lastTimestamp, this.sequence) in one    *)
(* step and its writes in a later one, so that a whole call of the first   *)
(* kind fits in between: each of the two has then read before the other    *)
(* has written.  The runtime runs every call to its end, so this           *)
(* interleaving is that of callers on several threads, which the           *)
(* instance does nothing to keep apart.                                    *)
(***************************************************************************)
\* lines 260-265 of nextId: the reads of the second call
RacerRead ==
    /\ pc = "idle"
    /\ racer.pc = "none"
    /\ count < MaxIds
    /\ racer' = [racer EXCEPT !.pc = "read", !.read = getTimestamp, !.clock = clock,
                              !.timestamp = StartTimestamp(getTimestamp),
                              !.lastTimestamp = lastTimestamp, !.sequence = sequence,
                              !.count = count]
    /\ UNCHANGED <<instVars, recording, genVars, error, pc, clock, callVars, ret, outVars,
                   histVars, query, peer>>

\* lines 276-289 of nextId, for the second call; raced tells whether an
\* identifier was produced since this call read
RacerFinish(t, seq, rd, rc, raced) ==
    /\ sequence' = seq
    /\ lastTimestamp' = t
    /\ \E randomBits \in generateRandomBits(cfg.randomBits, cfg.useCrypto),
          entropyValue \in generateRandomBits(cfg.entropyBits, cfg.useCrypto) :
          Produced(Pack(t, machineId, entropyValue, randomBits, seq), rd, rc,
                   [randomBits |-> randomBits, entropyValue |-> entropyValue])
    /\ racer' = [NoRacer EXCEPT !.raced = raced]

\* lines 265-289 of nextId: the writes of the second call, decided on what
\* it read
RacerWrite ==
    /\ pc = "idle"
    /\ racer.pc = "read"
    /\ LET raced == racer.raced \/ count # racer.count
       IN IF racer.timestamp = racer.lastTimestamp
          THEN IF NextSequence(racer.sequence) = 0
               THEN /\ sequence' = 0
                    /\ racer' = [racer EXCEPT !.pc = "wait", !.raced = raced]
                    /\ UNCHANGED <<lastTimestamp, outVars>>
               ELSE RacerFinish(racer.timestamp, NextSequence(racer.sequence), racer.read,
                                racer.clock, raced)
          ELSE RacerFinish(racer.timestamp, 0, racer.read, racer.clock, raced)
    /\ UNCHANGED <<instVars, recording, error, pc, clock, callVars, ret, histVars, query,
                   peer>>

\* the pass of the busy-wait of the second call that leaves the loop
RacerWait ==
    /\ pc = "idle"
    /\ racer.pc = "wait"
    /\ ~KeepWaiting(getTimestamp, lastTimestamp)
    /\ RacerFinish(getTimestamp, sequence, getTimestamp, clock,
                   racer.raced \/ count # racer.count)
    /\ UNCHANGED <<instVars, recording, error, pc, clock, callVars, ret, histVars, query,
                   peer>>

(***************************************************************************)
(* Candidates and the read-only methods of the generator.                  *)
(***************************************************************************)
\* the three forms a candidate takes: a bigint, a string, a HybridID object
Big(x) == [kind |-> "bigint", num |-> x, text |-> << >>]
Text(t) == [kind |-> "string", num |-> 0, text |-> t]
Obj(x) == [kind |-> "HybridID", num |-> NewHybridID(x).id, text |-> << >>]

\* no read-only call made yet
NoQuery == [op |-> "none", arg |-> Big(0), res |-> Value(0)]

\* HybridID.toBigInt()
ObjToBigInt(c) == toBigInt(c.num)

\* toBase62(id)
toBase62(c) ==
    IF c.kind = "HybridID" THEN encodeBase62(ObjToBigInt(c)) ELSE encodeBase62(c.num)

\* fromBase62(encodedId) of a string
fromBase62(t) == decodeBase62(t)

\* /^[0-9a-zA-Z]+$/.test(id): the digits and letters are the characters of
\* Base62Chars
AlphaNumeric(t) ==
    Len(t) > 0 /\ \A k \in 1 .. Len(t) : t[k] \in CharSet(Base62Chars)

\* (field checks that stop after the lower bound of the timestamp)
FieldsInRangeNoUpper(id) == TimestampField(id) >= 0

\* lines 459-475 of isHybridID: the checks on the bigint
FieldsInRange(id) ==
    LET timestampOfId == TimestampField(id)
        machineIdOfId == MachineIdField(id)
        randomBitsOfId == RandomField(id)
        sequenceOfId == SequenceField(id)
    IN /\ ~(timestampOfId < 0)
       /\ ~(timestampOfId > cfg.maxTimestamp)
       /\ ~(machineIdOfId < 0 \/ machineIdOfId > cfg.maxMachineId)
       /\ ~(randomBitsOfId < 0 \/ randomBitsOfId >= Shl(1, cfg.randomBits))
       /\ ~(sequenceOfId < 0 \/ sequenceOfId > cfg.maxSequence)

\* isHybridID(id); decodeBase62 has no throw, so the catch is never taken
isHybridID(c) ==
    IF c.kind = "HybridID" THEN TRUE
    ELSE IF c.kind = "string"
         THEN IF ~AlphaNumeric(c.text) THEN FALSE
              ELSE FieldsInRange(fromBase62(c.text))
         ELSE FieldsInRange(c.num)

\* (a validation that throws where it should report)
validateIDThrowing(c) ==
    IF ~isHybridID(c)
    THEN Throw("Invalid Hybrid ID")
    ELSE Value([valid |-> TRUE, reason |-> ""])

\* validateID(id); reason is "" where the code leaves it out
validateID(c) ==
    IF ~isHybridID(c)
    THEN Value([valid |-> FALSE, reason |-> "Invalid Hybrid ID"])
    ELSE Value([valid |-> TRUE, reason |-> ""])

\* (a record whose masked flag is always off)
InfoRecordOnNeverFlagged(maskTimestamp, id) ==
    [ timestamp  |-> IF maskTimestamp THEN -1 ELSE TimestampField(id),
      machineId  |-> MachineIdField(id),
      randomBits |-> RandomField(id),
      sequence   |-> SequenceField(id),
      masked     |-> FALSE ]

\* lines 539-563 of info on a generator with the widths of this one and the
\* given maskTimestamp: the record built from the bigint
InfoRecordOn(maskTimestamp, id) ==
    [ timestamp  |-> IF maskTimestamp THEN -1 ELSE TimestampField(id),
      machineId  |-> MachineIdField(id),
      randomBits |-> RandomField(id),
      sequence   |-> SequenceField(id),
      masked     |-> maskTimestamp ]

\* the record built by this generator
InfoRecord(id) == InfoRecordOn(cfg.maskTimestamp, id)

\* info(id) on a generator with the widths of this one and the given
\* maskTimestamp: an object is replaced by its bigint before anything else
infoOn(maskTimestamp, c) ==
    IF c.kind = "HybridID"
    THEN IF ~isHybridID(Big(ObjToBigInt(c))) THEN Throw("Invalid ID")
         ELSE Value(InfoRecordOn(maskTimestamp, ObjToBigInt(c)))
    ELSE IF ~isHybridID(c) THEN Throw("Invalid ID")
    ELSE IF c.kind = "string" THEN Value(InfoRecordOn(maskTimestamp, fromBase62(c.text)))
    ELSE Value(InfoRecordOn(maskTimestamp, c.num))

\* info(id) of this generator
info(c) == infoOn(cfg.maskTimestamp, c)

\* currentMs - creationMs of isIdExpired: the current time is not reduced
\* to its tick, the timestamp field is
AgeWallClock(now, id) == now - BitAnd(TimestampField(id), cfg.maxTimestamp)

\* (an expiry test that does not look at maskTimestamp)
isIdExpiredIgnoringMask(c, expiryDurationInMillis, now) ==
    IF cfg.useWallClock
    THEN AgeWallClock(now, IF c.kind = "HybridID" THEN ObjToBigInt(c) ELSE c.num)
             > expiryDurationInMillis
    ELSE now - TimestampField(IF c.kind = "HybridID" THEN ObjToBigInt(c) ELSE c.num)
             > expiryDurationInMillis * 1000000

\* isIdExpired(id, expiryDurationInMillis) when the clock shows now, for a
\* bigint or an object
isIdExpired(c, expiryDurationInMillis, now) ==
    IF cfg.maskTimestamp THEN FALSE
    ELSE IF cfg.useWallClock
         THEN AgeWallClock(now, IF c.kind = "HybridID" THEN ObjToBigInt(c) ELSE c.num)
                  > expiryDurationInMillis
         ELSE now - TimestampField(IF c.kind = "HybridID" THEN ObjToBigInt(c) ELSE c.num)
                  > expiryDurationInMillis * 1000000

(***************************************************************************)
(* The read-only calls and the codecs, applied to candidates.              *)
(***************************************************************************)
\* largest integer of the unbroken range of integers tried
MaxNum == 130
\* largest length of the strings built from SampleChars
MaxLen == 2
\* largest expiry duration tried, in milliseconds (the smallest is -1)
MaxDuration == 3

\* integers further out: around 2^8, 2^9, 32^2, 62^2, 64^2 and 64^3
SampleNums ==
    { -256, -255, 255, 256, 257, 511, 512, 513, 1023, 1024, 3843, 3844, 4095, 4096,
      262143, 262144 }

\* the integers tried: a range and the samples on a generator that has
\* produced nothing yet; later on, the last identifier produced and -1
Nums == IF lastId = -1 THEN ((0 - 2) .. MaxNum) \cup SampleNums ELSE {-1, lastId}

\* characters inside and outside the three alphabets
SampleChars == {"0", "1", "a", "Z", "A", "7", "/", "=", "-"}

\* the strings of SampleChars of length 0 .. MaxLen; once an identifier has
\* been produced, one string that is no Base62 text
FreeStrings ==
    IF lastId = -1 THEN UNION { [1 .. n -> SampleChars] : n \in 0 .. MaxLen } ELSE { <<"-">> }

Bigints == { Big(n) : n \in Nums }
Objects == { Obj(n) : n \in Nums }
\* longer texts: a whole group of four Base64 characters, without and with
\* padding
SampleStrings ==
    IF lastId = -1 THEN { <<"A", "A", "A", "B">>, <<"A", "A", "A", "B", "=">> } ELSE {}

Strings ==
    { Text(t) : t \in FreeStrings \cup SampleStrings \cup { encodeBase62(n) : n \in Nums } }
Candidates == Bigints \cup Objects \cup Strings

\* a read-only call can be made: the generator is idle and the caller is
\* done with the result of the call before
CanCall == pc = "idle" /\ query = NoQuery

\* (a read-only call that starts the sequence over)
CalledResettingSequence(op, c, res) ==
    /\ query' = [op |-> op, arg |-> c, res |-> res]
    /\ sequence' = 0
    /\ UNCHANGED <<instVars, recording, lastTimestamp, error, pc, clock, callVars, ret,
                   outVars, histVars, peer, racer>>

\* a read-only call: nothing but its record changes
Called(op, c, res) ==
    /\ query' = [op |-> op, arg |-> c, res |-> res]
    /\ UNCHANGED <<instVars, recording, genVars, error, pc, clock, callVars, ret, outVars,
                   histVars, peer, racer>>

\* the caller is done with the result of its call
ResultDropped ==
    /\ query # NoQuery
    /\ query' = NoQuery
    /\ UNCHANGED <<instVars, recording, genVars, error, pc, clock, callVars, ret, outVars,
                   histVars, peer, racer>>

\* isHybridID(c)
IsHybridID ==
    CanCall /\ \E c \in Candidates : Called("isHybridID", c, Value(isHybridID(c)))

\* validateID(c)
ValidateID ==
    CanCall /\ \E c \in Candidates : Called("validateID", c, validateID(c))

\* info(c)
Info ==
    CanCall /\ \E c \in Candidates : Called("info", c, info(c))

\* info(c) on this generator and on a second generator constructed with the
\* same options but the other maskTimestamp
InfoOnBoth ==
    CanCall /\ \E c \in Candidates :
        Called("infoOnBoth", c,
               [own |-> info(c), other |-> infoOn(~cfg.maskTimestamp, c)])

\* the expiry durations tried
Durations == (0 - 1) .. MaxDuration

\* isIdExpired(c, d) of a bigint or an object
IsIdExpired ==
    CanCall /\ \E c \in (Bigints \cup Objects) : \E d \in Durations :
                 Called("isIdExpired", c, Value(isIdExpired(c, d, clock)))

\* the options getter
options ==
    [ sequenceBits |-> cfg.sequenceBits, randomBits |-> cfg.randomBits,
      entropyBits |-> cfg.entropyBits, useCrypto |-> cfg.useCrypto,
      maskTimestamp |-> cfg.maskTimestamp,
      enableEventEmission |-> cfg.enableEventEmission,
      machineIdBits |-> cfg.machineIdBits, machineId |-> machineId,
      machineIdStrategy |-> args.machineIdStrategy, timestampBits |-> cfg.timestampBits,
      useWallClock |-> cfg.useWallClock, maxTimestamp |-> cfg.maxTimestamp,
      sequence |-> sequence, lastTimestamp |-> lastTimestamp,
      maxSequence |-> cfg.maxSequence, maxMachineId |-> cfg.maxMachineId ]

\* generator.options
Options == CanCall /\ Called("options", Big(0), Value(options))

\* largest field width tried
MaxWidth == 33

\* the field widths tried
Widths == 1 .. MaxWidth

\* the 1 << b from which the constructor derives maxSequence and
\* maxMachineId, and isHybridID and generateRandomBits their masks, for a
\* width b
Limit ==
    CanCall /\ \E b \in Widths : Called("limit", Big(b), Value(ShiftLeftOne(b)))

\* toBase62(c) of a bigint or an object
ToBase62 ==
    CanCall /\ \E c \in (Bigints \cup Objects) : Called("toBase62", c, Value(toBase62(c)))

\* fromBase62(c) of a string
FromBase62 ==
    CanCall /\ \E c \in Strings : Called("fromBase62", c, Value(fromBase62(c.text)))

\* encodeBase62(c)
EncodeBase62 ==
    CanCall /\ \E c \in Bigints : Called("encodeBase62", c, Value(encodeBase62(c.num)))

\* decodeBase62(c)
DecodeBase62 ==
    CanCall /\ \E c \in Strings : Called("decodeBase62", c, Value(decodeBase62(c.text)))

\* encodeBase32(c)
EncodeBase32 ==
    CanCall /\ \E c \in Bigints : Called("encodeBase32", c, Value(encodeBase32(c.num)))

\* decodeBase32(c)
DecodeBase32 ==
    CanCall /\ \E c \in Strings : Called("decodeBase32", c, Value(decodeBase32(c.text)))

\* encodeBase64(c)
EncodeBase64 ==
    CanCall /\ \E c \in Bigints : Called("encodeBase64", c, Value(encodeBase64(c.num)))

\* decodeBase64(c)
DecodeBase64 ==
    CanCall /\ \E c \in Strings : Called("decodeBase64", c, Value(decodeBase64(c.text)))

\* HybridID.fromBase62(c)
StaticFromBase62 ==
    CanCall /\ \E c \in Strings : Called("HybridID.fromBase62", c, HybridIDFromBase62(c.text))

\* HybridID.fromBase32(c)
StaticFromBase32 ==
    CanCall /\ \E c \in Strings : Called("HybridID.fromBase32", c, HybridIDFromBase32(c.text))

\* HybridID.fromBase64(c)
StaticFromBase64 ==
    CanCall /\ \E c \in Strings : Called("HybridID.fromBase64", c, HybridIDFromBase64(c.text))

\* HybridID.fromBase62(new HybridID(n).toBase62()) for n >= 0
ThroughBase62 ==
    CanCall /\ \E c \in Bigints :
        /\ c.num >= 0
        /\ Called("HybridID.throughBase62", c,
                  HybridIDFromBase62(HybridIDToBase62(NewHybridID(c.num))))

\* HybridID.fromBase32(new HybridID(n).toBase32()) for n >= 0
ThroughBase32 ==
    CanCall /\ \E c \in Bigints :
        /\ c.num >= 0
        /\ Called("HybridID.throughBase32", c,
                  HybridIDFromBase32(HybridIDToBase32(NewHybridID(c.num))))

\* HybridID.fromBase64(new HybridID(n).toBase64()) for n >= 0
ThroughBase64 ==
    CanCall /\ \E c \in Bigints :
        /\ c.num >= 0
        /\ Called("HybridID.throughBase64", c,
                  HybridIDFromBase64(HybridIDToBase64(NewHybridID(c.num))))

(***************************************************************************)
(* Specification.                                                          *)
(***************************************************************************)
\* the state right after new HybridIDGenerator(a), for every outcome of it
Constructed(a, o) ==
    /\ args = a
    /\ cfg = Fields(a)
    /\ machineId = o.machineId
    /\ error = o.error
    /\ pc = IF o.ok THEN "idle" ELSE "failed"
    /\ sequence = 0
    /\ lastTimestamp = -1
    /\ clock = 0
    /\ timestamp = -1
    /\ read = -1
    /\ rawRead = -1
    /\ lts = -1
    /\ i = 0
    /\ batchSize = 0
    /\ ids = << >>
    /\ ret = "none"
    /\ eventCount = 0
    /\ lastEvent = -1
    /\ lastId = -1
    /\ lastRead = -1
    /\ lastClock = -1
    /\ lastDraw = NoDraw
    /\ emitted = {}
    /\ count = 0
    /\ idStreak = 0
    /\ issued = {}
    /\ query = NoQuery
    /\ racer = NoRacer

Init ==
    /\ \E a \in GenArgs : \E o \in ResolveMachineId(a) : Constructed(a, o)
    /\ recording = FALSE
    /\ peer = NoPeer

Next ==
    \/ ClockAdvance
    \/ ClockBack
    \/ NextId
    \/ NextIdWait
    \/ NextIds
    \/ NextIdsIter
    \/ NextIdsWait

Spec == Init /\ [][Next]_vars

\* a clock that never moves backward: it only advances.  Its reading passes
\* 2^timestampBits when clock > cfg.maxTimestamp, and the tick wraps there
NextForward ==
    \/ ClockAdvance
    \/ NextId
    \/ NextIdWait
    \/ NextIds
    \/ NextIdsIter
    \/ NextIdsWait

\* the same generators, with the history of emitted pairs recorded
ForwardInit ==
    /\ \E a \in GenArgs : \E o \in ResolveMachineId(a) : Constructed(a, o)
    /\ recording = TRUE
    /\ peer = NoPeer

ForwardSpec == ForwardInit /\ [][NextForward]_vars

\* every way of constructing a generator, then used under a forward clock
CtorInit ==
    /\ \E a \in CtorArgs : \E o \in ResolveMachineId(a) : Constructed(a, o)
    /\ recording = FALSE
    /\ peer = NoPeer

CtorSpec == CtorInit /\ [][NextForward]_vars

(***************************************************************************)
(* A clock that keeps advancing.  The generation calls see the clock only  *)
(* modulo 2^timestampBits, so here clock holds the raw clock modulo        *)
(* 2^timestampBits and advances for ever.  A call in progress keeps        *)
(* running; a busy-wait polls the clock much faster than it ticks, so it   *)
(* leaves its loop if the clock offers a passing value again and again.    *)
(***************************************************************************)
ClockCycle ==
    /\ clock' = (clock + 1) % (cfg.maxTimestamp + 1)
    /\ UNCHANGED <<instVars, recording, genVars, error, pc, callVars, ret, outVars, histVars,
                 query, peer, racer>>

NextIdResume == NextIdWait /\ pc' # "wait"

NextIdsResume == NextIdsWait /\ pc' # "batchwait"

NextLive ==
    \/ ClockCycle
    \/ NextId
    \/ NextIdWait
    \/ NextIds
    \/ NextIdsIter
    \/ NextIdsWait

LiveArgs == { a \in GenArgs : a.sequenceBits = 1 }

LiveInit ==
    /\ \E a \in LiveArgs : \E o \in ResolveMachineId(a) : Constructed(a, o)
    /\ recording = FALSE
    /\ peer = NoPeer

LiveSpec ==
    /\ LiveInit
    /\ [][NextLive]_vars
    /\ WF_vars(ClockCycle)
    /\ WF_vars(NextIdsIter)
    /\ SF_vars(NextIdResume)
    /\ SF_vars(NextIdsResume)

(***************************************************************************)
(* Two instances in one process.  Each has its own machineId, sequence and *)
(* lastTimestamp and nothing else of its own; a call runs to its end       *)
(* before the next one starts, so following two instances is following one *)
(* and changing, between two calls, which of the two the next call goes to.*)
(* lastId is then the last identifier of the instance the calls go to.     *)
(* Both read the one clock of the process, at any moments.                 *)
(***************************************************************************)
\* the next call goes to the other instance
Switch ==
    /\ pc = "idle"
    /\ peer.on
    /\ machineId' = peer.machineId
    /\ sequence' = peer.sequence
    /\ lastTimestamp' = peer.lastTimestamp
    /\ issued' = peer.issued
    /\ lastId' = peer.lastId
    /\ peer' = [on |-> TRUE, machineId |-> machineId, sequence |-> sequence,
                lastTimestamp |-> lastTimestamp, issued |-> issued, lastId |-> lastId]
    /\ UNCHANGED <<args, cfg, recording, error, pc, clock, callVars, ret, eventCount,
                   lastEvent, lastRead, lastClock, lastDraw, emitted, count,
                   histVars, query, racer>>

PairNext ==
    \/ ClockAdvance
    \/ NextId
    \/ NextIdWait
    \/ Switch

\* the configurations of the two instances: the same options but machineId
PairArgs == { a \in GenArgs : a.sequenceBits = 1 /\ a.timestampBits = 2 }

\* the machine IDs the second instance is constructed with
PeerMachineIds == {2, 3}

\* new HybridIDGenerator(a) and new HybridIDGenerator({...a, machineId: m}),
\* the two of them resolving to different machine IDs
PairInit ==
    /\ \E a \in PairArgs : \E o \in ResolveMachineId(a) :
         /\ Constructed(a, o)
         /\ o.ok
         /\ \E m \in PeerMachineIds :
              \E o2 \in ResolveMachineId([a EXCEPT !.machineId = Num(m)]) :
                 /\ o2.ok
                 /\ o2.machineId # o.machineId
                 /\ peer = [on |-> TRUE, machineId |-> o2.machineId, sequence |-> 0,
                            lastTimestamp |-> -1, issued |-> {}, lastId |-> -1]
    /\ recording = FALSE

PairSpec == PairInit /\ [][PairNext]_vars

\* batches with a listener that calls nextId(), under a forward clock, with
\* the history of emitted pairs recorded
ReentrantNext ==
    \/ ClockAdvance
    \/ NextIds
    \/ NextIdsIter
    \/ NextIdsWait
    \/ ListenerNextId
    \/ ListenerNextIdWait

ReentrantArgs == { a \in GenArgs : a.enableEventEmission }

ReentrantInit ==
    /\ \E a \in ReentrantArgs : \E o \in ResolveMachineId(a) : Constructed(a, o)
    /\ recording = TRUE
    /\ peer = NoPeer

ReentrantSpec == ReentrantInit /\ [][ReentrantNext]_vars

\* nextId() calls that are serialized or interleave, under a forward clock,
\* with the history of emitted pairs recorded
RaceNext ==
    \/ ClockAdvance
    \/ NextId
    \/ NextIdWait
    \/ RacerRead
    \/ RacerWrite
    \/ RacerWait

RaceSpec == ForwardInit /\ [][RaceNext]_vars

\* a generator that is only read: the read-only calls and the codecs on
\* every candidate, for every configuration of GenArgs
QueryNext ==
    \/ IsHybridID
    \/ ValidateID
    \/ Info
    \/ InfoOnBoth
    \/ IsIdExpired
    \/ Options
    \/ Limit
    \/ ThroughBase62
    \/ ThroughBase32
    \/ ThroughBase64
    \/ ToBase62
    \/ FromBase62
    \/ EncodeBase62
    \/ DecodeBase62
    \/ EncodeBase32
    \/ DecodeBase32
    \/ EncodeBase64
    \/ DecodeBase64
    \/ StaticFromBase62
    \/ StaticFromBase32
    \/ StaticFromBase64
    \/ ResultDropped

QuerySpec == Init /\ [][QueryNext]_vars

\* a generator that is used and read: between two generation calls, the
\* read-only methods of the instance on the last identifier produced (as a
\* bigint, as an object and as Base62 text) and on invalid candidates
FrameNext ==
    \/ ClockAdvance
    \/ NextId
    \/ NextIdWait
    \/ NextIds
    \/ NextIdsIter
    \/ NextIdsWait
    \/ IsHybridID
    \/ ValidateID
    \/ Info
    \/ IsIdExpired
    \/ Options
    \/ ToBase62
    \/ FromBase62
    \/ ResultDropped

FrameSpec == LiveInit /\ [][FrameNext]_vars

(***************************************************************************)
(* Properties.                                                             *)
(***************************************************************************)
\* the (timestamp field, sequence field) pair of an identifier
PairOf(id) == <<TimestampField(id), SequenceField(id)>>

\* the pairs emitted with timestamp field t
PairsAt(t) == { p \in emitted : p[1] = t }

\* a step that produces one identifier
Emits == count' = count + 1

\* a call is in its busy-wait
Waiting == pc \in {"wait", "batchwait"}

\* the clock has not yet passed the largest value the timestamp field holds
NotWrapped == clock <= cfg.maxTimestamp

\* all pairs emitted so far are distinct, at most 2^sequenceBits per tick
PairsDistinct ==
    /\ recording
    /\ Cardinality(emitted) = count
    /\ \A t \in 0 .. cfg.maxTimestamp :
          Cardinality(PairsAt(t)) <= Pow2(cfg.sequenceBits)

\* C1 as stated: with maskTimestamp off and a clock that never moves
\* backward, no two identifiers an instance emits (by nextId or nextIds)
\* carry the same (timestamp field, sequence field) pair, and at most
\* 2^sequenceBits identifiers share one timestamp.
C1_UniquePairs == ~cfg.maskTimestamp => PairsDistinct

\* C1 as amended: the same, as long as the clock, which never moves
\* backward, has not passed 2^timestampBits - 1 (the tick has not wrapped).
C1_UniquePairsUntilWrap == (~cfg.maskTimestamp /\ NotWrapped) => PairsDistinct

\* a tick was filled up and a further identifier was emitted
C1_Witness ==
    /\ ~cfg.maskTimestamp
    /\ NotWrapped
    /\ count > Pow2(cfg.sequenceBits)
    /\ \E t \in 0 .. cfg.maxTimestamp : Cardinality(PairsAt(t)) = Pow2(cfg.sequenceBits)

\* C2: two consecutive nextId() calls return identifiers that differ in
\* their timestamp field or in their sequence field, whatever the clock
\* does between them and whatever the configuration.
C2_ConsecutiveDistinct ==
    [][(pc \in {"idle", "wait"} /\ idStreak >= 1 /\ Emits)
          => PairOf(lastId') # PairOf(lastId)]_vars

\* two nextId() calls in a row, the second one in the tick of the first
C2_Witness ==
    /\ pc = "idle"
    /\ idStreak = 2
    /\ sequence >= 1

\* C3 as stated: of two consecutive identifiers of one instance, under a
\* clock that does not move backward, the second is numerically greater
\* than or equal to the first, whatever the entropy and random fields are.
C3_NonDecreasing ==
    [][(Emits /\ lastId # -1) => lastId' >= lastId]_vars

\* C3 as amended: with maskTimestamp off and a clock that does not move
\* backward and has not passed 2^timestampBits - 1, of two consecutive
\* identifiers the second has a greater timestamp field (and is then
\* numerically greater), or the same timestamp field and a greater
\* sequence field.
C3_TickThenSequence ==
    [][(Emits /\ lastId # -1 /\ ~cfg.maskTimestamp /\ NotWrapped) =>
          \/ /\ TimestampField(lastId') > TimestampField(lastId)
             /\ lastId' > lastId
          \/ /\ TimestampField(lastId') = TimestampField(lastId)
             /\ SequenceField(lastId') > SequenceField(lastId)]_vars

\* a batch whose second identifier is numerically smaller than its first
C3_Witness ==
    /\ ~cfg.maskTimestamp
    /\ NotWrapped
    /\ Len(ids) >= 2
    /\ ids[2] < ids[1]
    /\ TimestampField(ids[2]) = TimestampField(ids[1])
    /\ SequenceField(ids[2]) > SequenceField(ids[1])

\* C4: nextIds(n) with n >= 1 returns exactly n identifiers, no two of
\* them with the same timestamp and sequence fields, whatever the clock
\* does during the call.
C4_BatchDistinct ==
    (pc = "idle" /\ ret = "ids") =>
        /\ batchSize >= 1
        /\ Len(ids) = batchSize
        /\ \A j, k \in 1 .. Len(ids) : j < k => PairOf(ids[j]) # PairOf(ids[k])

\* a returned batch that went through the busy-wait
C4_Witness ==
    /\ pc = "idle"
    /\ ret = "ids"
    /\ Len(ids) = 2
    /\ TimestampField(ids[2]) # TimestampField(ids[1])
    /\ SequenceField(ids[1]) = cfg.maxSequence

\* C5: nextIds(n) with n <= 0 throws 'Batch size must be greater than 0'
\* and does nothing else: sequence and lastTimestamp are unchanged, no
\* identifier is produced and no event is emitted.
C5_InvalidBatchRejected ==
    [][\A n \in BatchSizes : (n <= 0 /\ NextIdsCall(n)) =>
          /\ ret' = "error"
          /\ error' = Err("Batch size must be greater than 0", 0)
          /\ UNCHANGED <<sequence, lastTimestamp, machineId, pc, ids>>
          /\ UNCHANGED <<count, emitted, lastId, eventCount, lastEvent>>]_vars

\* a generator that has produced identifiers and then rejected a batch
C5_Witness ==
    /\ ret = "error"
    /\ error = Err("Batch size must be greater than 0", 0)
    /\ count >= 1
    /\ eventCount >= 1

\* a generation step is about to observe its tick equal to lastTimestamp
\* with the sequence at maxSequence
Overflowing ==
    /\ sequence = cfg.maxSequence
    /\ \/ pc = "idle" /\ StartTimestamp(getTimestamp) = lastTimestamp
       \/ pc = "batch" /\ timestamp = lastTimestamp

\* C6: a generation step that finds its tick equal to lastTimestamp with
\* the sequence at maxSequence emits nothing for that tick; the call
\* re-reads the clock, emits nothing while the reading is not greater than
\* lastTimestamp, and then emits with the new tick and sequence 0.
C6_OverflowWaits ==
    [][/\ Overflowing => ~Emits
       /\ (Overflowing /\ pc = "batch" /\ pc' # pc) => pc' = "batchwait"
       /\ (Waiting /\ getTimestamp <= lastTimestamp) => (pc' = pc /\ ~Emits)
       /\ (Waiting /\ pc' # pc) => Emits
       /\ (Waiting /\ Emits) =>
            /\ getTimestamp > lastTimestamp
            /\ lastTimestamp' = getTimestamp
            /\ TimestampField(lastId') = getTimestamp
            /\ SequenceField(lastId') = 0]_vars

\* a call waits in a full tick while the clock still shows that tick
C6_Witness ==
    /\ Waiting
    /\ count >= Pow2(cfg.sequenceBits)
    /\ getTimestamp = lastTimestamp
    /\ sequence = 0

\* C7: if the clock keeps advancing, every nextId() and every nextIds(n)
\* call eventually returns, in every configuration and reachable state.
C7_EveryCallReturns == (pc \in {"wait", "batch", "batchwait"}) ~> (pc = "idle")

\* C8: with maskTimestamp on, the timestamp field of every identifier is
\* the hash-derived value of the clock reading it was built from, also
\* after a busy-wait.
C8_MaskedTimestampIsHash ==
    (cfg.maskTimestamp /\ lastId # -1) =>
        TimestampField(lastId) = BitAnd(obfuscateTimestamp(lastRead), cfg.maxTimestamp)

\* the constructor was given a number and no strategy
ExplicitNumber == args.machineIdStrategy = "none" /\ args.machineId.kind = "number"

\* C9: with an explicit numeric machineId m and no strategy, construction
\* succeeds exactly when 0 <= m <= 2^machineIdBits - 1 and otherwise throws
\* 'Machine ID must be between 0 and <max>'; with the default 12 bits 4095
\* is accepted, 4096 and -1 are rejected.
C9_ExplicitMachineId ==
    ExplicitNumber =>
        LET m == args.machineId.val
            max == Pow2(cfg.machineIdBits) - 1
        IN /\ (pc # "failed") <=> (0 <= m /\ m <= max)
           /\ (pc # "failed") => (machineId = m)
           /\ (pc = "failed") =>
                 (error = Err("Machine ID must be between 0 and", max) /\ count = 0)
           /\ (args.machineIdBits = 0) =>
                 /\ cfg.machineIdBits = 12
                 /\ (m = 4095) => (pc # "failed")
                 /\ (m \in {4096, -1}) => (pc = "failed")

\* the largest machine ID of the default width, accepted and in use
C9_Witness ==
    /\ ExplicitNumber
    /\ args.machineIdBits = 0
    /\ machineId = 4095
    /\ count >= 1

\* C10: after a successful construction by any strategy the machine ID is
\* within 0 .. 2^machineIdBits - 1, it never changes, and the machineId
\* field of every identifier the instance emits equals it.
C10_MachineIdFixed ==
    /\ [](pc # "failed" =>
            /\ 0 <= machineId
            /\ machineId <= Pow2(cfg.machineIdBits) - 1
            /\ lastId # -1 => MachineIdField(lastId) = machineId
            /\ \A j \in 1 .. Len(ids) : MachineIdField(ids[j]) = machineId)
    /\ [][machineId' = machineId]_vars

\* an instance whose environment value had to be folded has emitted a batch
C10_Witness ==
    /\ args.machineIdStrategy = "env"
    /\ args.env.val > Pow2(cfg.machineIdBits) - 1
    /\ pc = "idle"
    /\ ret = "ids"
    /\ Len(ids) >= 2

(***************************************************************************)
(* Emitted identifiers read back.                                          *)
(***************************************************************************)
\* W: the five widths together
TotalWidth ==
    cfg.timestampBits + cfg.machineIdBits + cfg.entropyBits + cfg.randomBits
        + cfg.sequenceBits

\* (entropyValue << (sequenceBits + randomBits)) read back
EntropyField(id) ==
    BitAnd(Shr(id, cfg.sequenceBits + cfg.randomBits), Shl(1, cfg.entropyBits) - 1)

\* the Base62 text of an identifier
TextOf(id) == Text(toBase62(Big(id)))

\* C11: every identifier emitted by nextId() or nextIds(), under every
\* configuration (maskTimestamp included), is at least 0 and below 2^W,
\* each of its five fields is within its width, and isHybridID is true for
\* its bigint, for its HybridID object and for its Base62 text.
C11_EmittedIsValid ==
    lastId # -1 =>
        /\ 0 <= lastId /\ lastId < Pow2(TotalWidth)
        /\ TimestampField(lastId) \in 0 .. cfg.maxTimestamp
        /\ machineId \in 0 .. cfg.maxMachineId
        /\ lastDraw.entropyValue \in 0 .. MaxOfBits(cfg.entropyBits)
        /\ lastDraw.randomBits \in 0 .. MaxOfBits(cfg.randomBits)
        /\ SequenceField(lastId) \in 0 .. cfg.maxSequence
        /\ isHybridID(Big(lastId))
        /\ isHybridID(Obj(lastId))
        /\ isHybridID(TextOf(lastId))
        /\ \A k \in 1 .. Len(ids) : /\ isHybridID(Big(ids[k]))
                                    /\ isHybridID(TextOf(ids[k]))

\* a masked identifier of nextIds whose Base62 text has two characters
C11_Witness ==
    /\ cfg.maskTimestamp
    /\ ret = "ids"
    /\ Len(ids) = 2
    /\ lastId = ids[2]
    /\ Len(TextOf(lastId).text) = 2
    /\ isHybridID(TextOf(lastId))

(***************************************************************************)
(* The codecs.                                                             *)
(***************************************************************************)
\* C12: Base62 round trip: decodeBase62(encodeBase62(n)) = n for every
\* n >= 0, also through fromBase62(toBase62(n)) of the generator;
\* encodeBase62(0) is "0"; and encodeBase62(decodeBase62(s)) = s for every
\* non-empty Base62 text s that does not start with the digit 0.
C12_Base62RoundTrip ==
    /\ (query.op = "encodeBase62" /\ query.arg.num >= 0)
           => decodeBase62(query.res.value) = query.arg.num
    /\ (query.op = "toBase62" /\ query.arg.num >= 0)
           => fromBase62(query.res.value) = query.arg.num
    /\ (query.op = "encodeBase62" /\ query.arg.num = 0) => query.res.value = <<"0">>
    /\ (query.op = "decodeBase62" /\ isValidBase62(query.arg.text)
            /\ query.arg.text[1] # "0")
           => encodeBase62(query.res.value) = query.arg.text

\* 62^2 encoded: three characters
C12_Witness ==
    /\ query.op = "encodeBase62"
    /\ query.arg.num = 3844
    /\ query.res.value = <<"1", "0", "0">>

\* C13: Base32 and Base64 round trip: decodeBase32(encodeBase32(n)) = n and
\* decodeBase64(encodeBase64(n)) = n for every n >= 0, 0 included, and
\* every character the encoders produce is a character of their alphabet.
C13_Base32Base64RoundTrip ==
    /\ (query.op = "encodeBase32" /\ query.arg.num >= 0)
           => /\ decodeBase32(query.res.value) = query.arg.num
              /\ \A k \in 1 .. Len(query.res.value) :
                     query.res.value[k] \in CharSet(Base32Chars)
    /\ (query.op = "encodeBase64" /\ query.arg.num >= 0)
           => /\ decodeBase64(query.res.value) = query.arg.num
              /\ \A k \in 1 .. Len(query.res.value) :
                     query.res.value[k] \in CharSet(Base64Chars)

\* the text has a character that is not one of chars
HasForeign(t, chars) == \E k \in 1 .. Len(t) : t[k] \notin CharSet(chars)

\* C14: decoding a text that has a character outside the alphabet ends
\* with an error, in decodeBase62, decodeBase32, decodeBase64, in
\* fromBase62 of the generator and in HybridID.fromBase62 / fromBase32 /
\* fromBase64.
C14_ForeignCharacterThrows ==
    /\ (query.op \in {"decodeBase62", "fromBase62", "HybridID.fromBase62"}
            /\ HasForeign(query.arg.text, Base62Chars)) => query.res.threw
    /\ (query.op \in {"decodeBase32", "HybridID.fromBase32"}
            /\ HasForeign(query.arg.text, Base32Chars)) => query.res.threw
    /\ (query.op \in {"decodeBase64", "HybridID.fromBase64"}
            /\ HasForeign(query.arg.text, Base64Chars)) => query.res.threw

(***************************************************************************)
(* Validation and info of candidates.                                      *)
(***************************************************************************)
\* C15: isHybridID(c) and validateID(c) return, without throwing, for
\* every candidate c: any integer, any string, any HybridID object.
C15_ValidationNeverThrows ==
    /\ query.op = "isHybridID" => (~query.res.threw /\ query.res.value \in BOOLEAN)
    /\ query.op = "validateID"
           => (~query.res.threw /\ query.res.value.valid \in BOOLEAN)

\* validateID of a text with a character outside Base62 reports it
C15_Witness ==
    /\ query.op = "validateID"
    /\ query.arg.kind = "string"
    /\ HasForeign(query.arg.text, Base62Chars)
    /\ query.res = Value([valid |-> FALSE, reason |-> "Invalid Hybrid ID"])

\* 0 <= x < 2^W
InBound(x) == 0 <= x /\ x < Pow2(TotalWidth)

\* what C16 expects of a bigint or string candidate
ExpectedValid(c) ==
    IF c.kind = "string"
    THEN isValidBase62(c.text) /\ InBound(decodeBase62(c.text))
    ELSE InBound(c.num)

\* C16: for an integer x, isHybridID(x) is true exactly when 0 <= x < 2^W;
\* for a string, exactly when it is a non-empty Base62 text whose decoded
\* value satisfies that bound; validateID gives valid: true in exactly
\* those cases.
C16_ValidExactlyInBound ==
    /\ (query.op = "isHybridID" /\ query.arg.kind # "HybridID")
           => query.res.value = ExpectedValid(query.arg)
    /\ (query.op = "validateID" /\ query.arg.kind # "HybridID")
           => query.res.value.valid = ExpectedValid(query.arg)

\* the text of 2^W - 1, of two characters or more, is accepted
C16_Witness ==
    /\ query.op = "isHybridID"
    /\ query.arg = Text(encodeBase62(Pow2(TotalWidth) - 1))
    /\ Len(query.arg.text) >= 2
    /\ query.res.value = TRUE

\* C17: info(c) throws 'Invalid ID' exactly when isHybridID(c) is false, for
\* every form of candidate, a HybridID object wrapping a negative or an
\* over-wide value included.
C17_InfoThrowsIffInvalid ==
    query.op = "info"
        => ((query.res.threw /\ query.res.message = "Invalid ID")
               <=> ~isHybridID(query.arg))

(***************************************************************************)
(* info and isIdExpired of emitted identifiers.                            *)
(***************************************************************************)
\* no call is inside a busy-wait: sequence and lastTimestamp are those of
\* the last identifier
Settled == pc \in {"idle", "batch"}

\* C18: with maskTimestamp off, info(id) of every emitted identifier gives
\* back the tick packed (lastTimestamp right after the emission), the
\* machine ID of the generator, the random value drawn and the sequence
\* used; the entropy field overlaps none of them (the identifier is the sum
\* of the five shifted fields); and the record is the same for the bigint,
\* the HybridID object and the Base62 text.
C18_InfoReadsBackFields ==
    (lastId # -1 /\ ~cfg.maskTimestamp) =>
        LET r == info(Big(lastId))
        IN /\ ~r.threw
           /\ r.value.machineId = machineId
           /\ r.value.randomBits = lastDraw.randomBits
           /\ r.value.masked = FALSE
           /\ Settled => /\ r.value.timestamp = lastTimestamp
                         /\ r.value.sequence = sequence
           /\ EntropyField(lastId) = lastDraw.entropyValue
           /\ lastId = Shl(r.value.timestamp,
                           cfg.sequenceBits + cfg.randomBits + cfg.entropyBits
                               + cfg.machineIdBits)
                       + Shl(r.value.machineId,
                             cfg.sequenceBits + cfg.randomBits + cfg.entropyBits)
                       + Shl(lastDraw.entropyValue, cfg.sequenceBits + cfg.randomBits)
                       + Shl(r.value.randomBits, cfg.sequenceBits)
                       + r.value.sequence
           /\ info(Obj(lastId)) = r
           /\ info(TextOf(lastId)) = r

\* an identifier with every field above 0, read back from its text
C18_Witness ==
    /\ lastId # -1
    /\ ~cfg.maskTimestamp
    /\ Settled
    /\ lastDraw.randomBits = 1
    /\ lastDraw.entropyValue = 1
    /\ info(TextOf(lastId)).value =
           [timestamp |-> lastTimestamp, machineId |-> 2, randomBits |-> 1,
            sequence |-> sequence, masked |-> FALSE]
    /\ lastTimestamp >= 1
    /\ sequence >= 1

\* C19: with maskTimestamp on, for every emitted identifier isHybridID is
\* true, info reports masked = true and timestamp = -1, and isIdExpired is
\* false for every duration, whatever the clock shows afterwards.
C19_MaskedIdentifier ==
    (lastId # -1 /\ cfg.maskTimestamp) =>
        LET r == info(Big(lastId))
        IN /\ isHybridID(Big(lastId))
           /\ ~r.threw
           /\ r.value.masked = TRUE
           /\ r.value.timestamp = -1
           /\ info(TextOf(lastId)) = r
           /\ \A d \in Durations : /\ ~isIdExpired(Big(lastId), d, clock)
                                   /\ ~isIdExpired(Obj(lastId), d, clock)

\* a masked identifier, checked once the clock has moved on past its
\* timestamp field
C19_Witness ==
    /\ lastId # -1
    /\ cfg.maskTimestamp
    /\ clock > lastClock
    /\ clock > TimestampField(lastId)
    /\ info(Big(lastId)).value.timestamp = -1
    /\ ~isIdExpired(Big(lastId), 0, clock)

\* one millisecond in units of the clock: the wall clock counts
\* milliseconds, the monotonic clock nanoseconds
ClockUnitsPerMs == IF cfg.useWallClock THEN 1 ELSE 1000000

\* C20: with maskTimestamp off, in either clock mode and for any
\* timestampBits, for an identifier generated when the clock showed c and
\* checked when it shows n >= c, isIdExpired(id, d) is true exactly when
\* the age n - c is more than d milliseconds; so an identifier checked at
\* the reading it was generated at is not expired for any d >= 0.
C20_ExpiredIffOlder ==
    (lastId # -1 /\ ~cfg.maskTimestamp /\ clock >= lastClock) =>
        \A d \in Durations :
            d >= 0 => /\ isIdExpired(Big(lastId), d, clock)
                          <=> (clock - lastClock > d * ClockUnitsPerMs)
                      /\ isIdExpired(Obj(lastId), d, clock)
                          <=> (clock - lastClock > d * ClockUnitsPerMs)

\* C21: two instances of the same field widths and of different machine IDs
\* never produce the same identifier, whatever the clock shows to each, whatever
\* the random values drawn and however their calls interleave: no identifier
\* is among those of both instances.
C21_InstancesDisjoint == peer.on => issued \cap peer.issued = {}

\* both instances have produced an identifier of the same tick, sequence,
\* entropy and random fields: the two differ in the machine ID field alone
C21_Witness ==
    /\ peer.on
    /\ \E x \in issued : \E y \in peer.issued :
         /\ x # y
         /\ PackWithoutMachineId(TimestampField(x), 0, EntropyField(x), RandomField(x),
                                 SequenceField(x))
            = PackWithoutMachineId(TimestampField(y), 0, EntropyField(y), RandomField(y),
                                   SequenceField(y))

\* C22: with enableEventEmission on, every identifier produced comes with
\* exactly one 'idGenerated' event, carrying that identifier's value, emitted
\* when sequence and lastTimestamp already hold its fields; no event is
\* emitted otherwise; each element nextIds(n) stores in its array has its
\* event, in the order of the array, and the call returns n elements.  With
\* enableEventEmission off no event is ever emitted.
C22_OneEventPerId ==
    [][IF cfg.enableEventEmission
       THEN /\ Emits => /\ eventCount' = eventCount + 1
                        /\ lastEvent' = lastId'
                        /\ TimestampField(lastEvent') = lastTimestamp'
                        /\ SequenceField(lastEvent') = sequence'
            /\ ~Emits => UNCHANGED <<eventCount, lastEvent>>
            /\ (ids' # ids /\ ids' # << >>) =>
                  /\ Len(ids') = Len(ids) + 1
                  /\ eventCount' = eventCount + 1
                  /\ lastEvent' = ids'[Len(ids')]
            /\ (pc # "idle" /\ pc' = "idle" /\ ret' = "ids") => Len(ids') = batchSize'
            /\ (pc # "idle" /\ pc' = "idle" /\ ret' = "id") => Emits
       ELSE eventCount' = 0 /\ lastEvent' = -1]_vars

\* nextIds(2) has returned with events on: two events, the last one
\* carrying the second element
C22_Witness ==
    /\ cfg.enableEventEmission
    /\ pc = "idle"
    /\ ret = "ids"
    /\ Len(ids) = 2
    /\ eventCount >= 2
    /\ lastEvent = ids[2]

\* C23: isHybridID, validateID, info, isIdExpired, toBase62, fromBase62 and
\* the options getter leave sequence, lastTimestamp and machineId as they
\* are, whether they return or throw; sequence and lastTimestamp change in
\* steps of nextId() and nextIds() only.
C23_ReadOnlyFrame ==
    [][/\ query' # query => UNCHANGED <<sequence, lastTimestamp, machineId>>
       /\ (sequence' # sequence \/ lastTimestamp' # lastTimestamp) =>
             /\ query' = query
             /\ pc \in {"idle", "wait", "batch", "batchwait"}
             /\ Emits \/ pc' \in {"wait", "batchwait"}]_vars

\* info has thrown on a generator whose sequence and lastTimestamp are no
\* longer those of construction
C23_Witness ==
    /\ query.op = "info"
    /\ query.res.threw
    /\ sequence >= 1
    /\ lastTimestamp >= 0

(***************************************************************************)
(* The machine ID strategies.                                              *)
(***************************************************************************)
\* C24: with strategy 'env' construction fails when the environment
\* variable is absent, when its value is not numeric and when the parsed
\* value is negative or above 2^machineIdBits - 1; otherwise it succeeds with
\* machineId equal to the parsed value.
C24_EnvStrategy ==
    args.machineIdStrategy = "env" =>
        LET max == Pow2(cfg.machineIdBits) - 1
        IN /\ (pc = "failed") <=>
                 \/ args.env.kind \in {"undefined", "empty", "nan"}
                 \/ args.env.val < 0
                 \/ args.env.val > max
           /\ (pc # "failed") => machineId = args.env.val

\* C25: with strategy 'network' construction fails when no interface has a
\* non-zero hardware address, and otherwise the machine ID is the first such
\* address, as an integer, modulo 2^machineIdBits, whatever machineIdBits is.
C25_NetworkStrategy ==
    args.machineIdStrategy = "network" =>
        /\ (pc = "failed") <=> (FirstValidMac(args.interfaces) = 0)
        /\ (pc # "failed") =>
              machineId = FirstValidMac(args.interfaces) % Pow2(cfg.machineIdBits)

\* C26: with strategy 'random' construction succeeds whether or not a
\* machineId option is given, with a machine ID in 0 .. maxMachineId.
C26_RandomStrategy ==
    args.machineIdStrategy = "random" =>
        /\ pc # "failed"
        /\ machineId \in 0 .. cfg.maxMachineId

(***************************************************************************)
(* The sequence arbiter.                                                   *)
(***************************************************************************)
\* C27: a new generator has sequence 0 and lastTimestamp -1; whenever no call
\* is in progress and an identifier has been produced, lastTimestamp is the
\* timestamp field and sequence the sequence field of the identifier
\* produced last; sequence is within 0 .. maxSequence throughout.
C27_StateIsLastId ==
    /\ (pc = "idle" /\ count = 0) => (sequence = 0 /\ lastTimestamp = -1)
    /\ (pc = "idle" /\ count > 0) =>
          /\ lastTimestamp = TimestampField(lastId)
          /\ sequence = SequenceField(lastId)
    /\ 0 <= sequence
    /\ sequence <= cfg.maxSequence

\* a batch has returned after another call: the state is that of the last
\* element, whose sequence is not 0
C27_Witness ==
    /\ pc = "idle"
    /\ ret = "ids"
    /\ count > Len(ids)
    /\ Len(ids) >= 2
    /\ sequence = SequenceField(ids[Len(ids)])
    /\ lastTimestamp = TimestampField(ids[Len(ids)])
    /\ sequence >= 1

\* C28: a nextId() that reads a tick t equal to lastTimestamp sets the
\* sequence to (sequence + 1) mod 2^sequenceBits; one that reads a tick
\* different from lastTimestamp, greater or smaller, sets the sequence to 0
\* and returns at once, without waiting and without error, an identifier of
\* tick t and sequence 0.  The first identifier of an instance has sequence 0.
C28_ArbiterStep ==
    [][/\ (pc = "idle" /\ (Emits \/ pc' = "wait")) =>
             LET t == StartTimestamp(getTimestamp)
             IN IF t = lastTimestamp
                THEN sequence' = (sequence + 1) % Pow2(cfg.sequenceBits)
                ELSE /\ sequence' = 0
                     /\ pc' = "idle"
                     /\ ret' = "id"
                     /\ error' = NoError
                     /\ lastTimestamp' = t
                     /\ TimestampField(lastId') = t
                     /\ SequenceField(lastId') = 0
       /\ (count = 0 /\ Emits) => SequenceField(lastId') = 0]_vars

\* the second identifier was built from tick 0 with sequence 0, with the mask
\* off: the first one was of a later tick, so the clock has moved backward
\* in between
C28_Witness ==
    /\ ~cfg.maskTimestamp
    /\ pc = "idle"
    /\ ret = "id"
    /\ idStreak = 2
    /\ count = 2
    /\ lastClock = 0
    /\ lastTimestamp = 0
    /\ sequence = 0

\* C29: nextIds(n) is n nextId() calls in a row.  Its first iteration works
\* on the clock reading of the call; every later iteration does what a
\* nextId() call made at that moment, from the same sequence and
\* lastTimestamp and under the same clock, would do: it waits for the next
\* tick exactly when that call would, and otherwise produces the (timestamp,
\* sequence) pair and leaves the sequence and lastTimestamp that call would,
\* also when the clock has advanced since the batch began.
C29_BatchIsRepeatedNextId ==
    [][(pc = "batch" /\ i >= 1 /\ (Emits \/ pc' = "batchwait")) =>
          LET t == StartTimestamp(getTimestamp)
          IN IF t = lastTimestamp /\ NextSequence(sequence) = 0
             THEN pc' = "batchwait" /\ sequence' = 0
             ELSE /\ Emits
                  /\ lastTimestamp' = t
                  /\ sequence' = (IF t = lastTimestamp THEN NextSequence(sequence) ELSE 0)
                  /\ PairOf(lastId') = <<lastTimestamp', sequence'>>]_vars

\* C30: when a listener of 'idGenerated' calls nextId() while nextIds(n) is
\* in progress, with maskTimestamp off and a clock that does not move
\* backward (and has not wrapped), the identifiers of the batch and of the
\* listener's calls all have different (timestamp, sequence) pairs.
C30_ReentrantDistinct == (~cfg.maskTimestamp /\ NotWrapped) => PairsDistinct

(***************************************************************************)
(* Interleaved calls.                                                      *)
(***************************************************************************)
\* a call has produced an identifier between the read and the write of the
\* second call, now or before: the calls were not serialized
Interleaved == racer.raced \/ (racer.pc # "none" /\ count # racer.count)

\* C31 as stated: as long as no call has written between the read and the
\* write of another (the calls were serialized), no two identifiers have the
\* same (timestamp, sequence) pair; once two calls have each read before the
\* other wrote, two identifiers of the same pair can be there.
C31_SerializedDistinct == ~Interleaved => PairsDistinct

\* C31 as amended: the same, for serialized calls with maskTimestamp off
\* and before the tick wraps under the forward clock.
C31_DuplicateOnlyByRace ==
    (~cfg.maskTimestamp /\ NotWrapped /\ ~Interleaved) => PairsDistinct

\* two calls that each read before the other wrote have produced two
\* identifiers and one pair, with the mask off and before any wrap
C31_Witness ==
    /\ ~cfg.maskTimestamp
    /\ NotWrapped
    /\ racer.raced
    /\ racer.pc = "none"
    /\ count = 2
    /\ Cardinality(emitted) = 1

\* C32: of two identifiers of two generators of the same field widths, the
\* one built with the smaller timestamp is the smaller number, whatever the
\* machine IDs and the entropy, random and sequence fields.  (lastTimestamp
\* is the timestamp an instance built its last identifier with.)
C32_TimestampOrdersIds ==
    (peer.on /\ pc = "idle" /\ lastId # -1 /\ peer.lastId # -1) =>
        /\ lastTimestamp < peer.lastTimestamp => lastId < peer.lastId
        /\ peer.lastTimestamp < lastTimestamp => peer.lastId < lastId

\* the identifier of the smaller timestamp has the greater machine ID,
\* entropy, random and sequence fields
C32_Witness ==
    /\ peer.on
    /\ pc = "idle"
    /\ lastId # -1
    /\ peer.lastId # -1
    /\ lastTimestamp < peer.lastTimestamp
    /\ machineId > peer.machineId
    /\ EntropyField(lastId) > EntropyField(peer.lastId)
    /\ RandomField(lastId) > RandomField(peer.lastId)
    /\ SequenceField(lastId) > SequenceField(peer.lastId)

(***************************************************************************)
(* Derived limits.                                                         *)
(***************************************************************************)
\* x = 2^b
RECURSIVE IsTwoToThe(_, _)
IsTwoToThe(x, b) ==
    IF b = 0 THEN x = 1
    ELSE x > 0 /\ x % 2 = 0 /\ IsTwoToThe(x \div 2, b - 1)

\* C33: for every field width b >= 1 the limit and mask (1 << b) - 1 that
\* the constructor, isHybridID and generateRandomBits derive is 2^b - 1, that
\* is 1 << b is 2^b, also for widths of 31 bits and more.
C33_LimitsArePowersOfTwo ==
    query.op = "limit" => IsTwoToThe(query.res.value, query.arg.num)

(***************************************************************************)
(* HybridID objects through their own encodings.                           *)
(***************************************************************************)
\* the three calls of an object through one of its encodings
ThroughOps == {"HybridID.throughBase62", "HybridID.throughBase32", "HybridID.throughBase64"}

\* C34: for every n >= 0 and each base of 62, 32, 64,
\* HybridID.fromBaseB(new HybridID(n).toBaseB()) returns, without throwing,
\* an object whose toBigInt() is n.
C34_ObjectRoundTrip ==
    query.op \in ThroughOps =>
        /\ ~query.res.threw
        /\ HybridIDToBigInt(query.res.value) = query.arg.num

(***************************************************************************)
(* info on generators that differ in maskTimestamp.                        *)
(***************************************************************************)
\* C35: whenever info(c) returns, its masked flag is the maskTimestamp of
\* the generator it is called on and its timestamp is -1 exactly when that
\* setting is on, whatever c is; a second generator that differs only in
\* maskTimestamp returns for the same c too, with the other masked flag, a
\* different timestamp and the same machineId, randomBits and sequence.
C35_MaskedEchoesSetting ==
    (query.op = "infoOnBoth" /\ ~query.res.own.threw) =>
        LET own == query.res.own.value
            other == query.res.other
        IN /\ own.masked = cfg.maskTimestamp
           /\ (own.timestamp = -1) <=> cfg.maskTimestamp
           /\ ~other.threw
           /\ other.value.masked = ~cfg.maskTimestamp
           /\ (other.value.timestamp = -1) <=> ~cfg.maskTimestamp
           /\ other.value.masked # own.masked
           /\ other.value.timestamp # own.timestamp
           /\ other.value.machineId = own.machineId
           /\ other.value.randomBits = own.randomBits
           /\ other.value.sequence = own.sequence

\* an identifier with every field above 0, read by a generator with
\* maskTimestamp off and by one with maskTimestamp on
C35_Witness ==
    /\ query.op = "infoOnBoth"
    /\ query.arg.kind = "bigint"
    /\ ~cfg.maskTimestamp
    /\ ~query.res.own.threw
    /\ query.res.own.value.timestamp > 0
    /\ query.res.own.value.machineId > 0
    /\ query.res.own.value.sequence > 0
    /\ query.res.other.value.masked
    /\ query.res.other.value.timestamp = -1

====
